---- MODULE Spec2Model ----
(***************************************************************************)
(* Model of the PDF question-answering assistant:                          *)
(*   backend/pdf_processor.py      chunk_text                              *)
(*   backend/embedding_generator.py generate_embedding(s_batch)            *)
(*   backend/pinecone_manager.py   upsert / query / stats / delete         *)
(*   backend/assistant.py          index_pdfs, ask_question                *)
(* Texts are sequences of one-character strings.  Similarity scores are    *)
(* integers in units of 1/10000 (0.7 is 7000), rounded scores in units of  *)
(* 1/1000.                                                                 *)
(***************************************************************************)
EXTENDS Integers, Sequences, FiniteSets, TLC

VARIABLES
    \* ---- one call of PDFProcessor.chunk_text ----
    text,        \* argument text
    chunk_size,  \* argument chunk_size
    overlap,     \* argument overlap
    start,       \* local variable start
    end,         \* local variable end (of the last window cut)
    chunks,      \* local list chunks / the returned list
    windows,     \* history: the <<start, end>> pairs sliced so far
    cpc,         \* position in chunk_text: "idle", "call", "loop", "done", "raised"
    \* ---- the assistant and its collaborators ----
    store,       \* records held by the Pinecone index, in insertion order
    next_id,     \* number of identifiers uuid4 has handed out
    op,          \* the public operation that ran last, with its inputs
    result,      \* what that operation returned (or the fault it raised)
    calls,       \* the calls it made to the external services, in order,
                 \* each with its outcome
    \* ---- st.session_state of the Streamlit page ----
    assistant,      \* "none" until ConversationalAssistant() succeeded, then "ready"
    chat_history,   \* list of (question, answer, sources)
    system_status,  \* the status dictionary last fetched
    ui              \* the widget event the last script run handled

chunk_vars == <<text, chunk_size, overlap, start, end, chunks, windows, cpc>>
asst_vars  == <<store, next_id, op, result, calls>>
sess_vars  == <<assistant, chat_history, system_status, ui>>
vars       == <<text, chunk_size, overlap, start, end, chunks, windows, cpc,
                store, next_id, op, result, calls,
                assistant, chat_history, system_status, ui>>

(***************************************************************************)
(* Bounds of the model.                                                    *)
(***************************************************************************)
MaxTextLen == 5
MaxChunkSize == 3
MaxOverlap == 3
MaxIter == 6

(***************************************************************************)
(* Python string primitives.                                               *)
(***************************************************************************)
Max(a, b) == IF a >= b THEN a ELSE b
Min(a, b) == IF a <= b THEN a ELSE b

\* characters str.strip() removes
Whitespace == {" ", "\n", "\t", "\r"}

\* the list ['\n', '.', '!', '?', ' '] of chunk_text
BreakChars == {"\n", ".", "!", "?", " "}

\* text[i] is defined (no IndexError): -len <= i < len
ValidIndex(s, i) == (-Len(s) <= i) /\ (i < Len(s))

\* text[i], 0-based, a negative i counting from the end
PyIndex(s, i) == IF i < 0 THEN s[Len(s) + i + 1] ELSE s[i + 1]

\* a slice bound as Python normalises it
SliceBound(n, i) == IF i < 0 THEN Max(n + i, 0) ELSE Min(i, n)

\* text[a:b]
PySlice(s, a, b) ==
    LET lo == SliceBound(Len(s), a)
        hi == SliceBound(Len(s), b)
    IN  IF lo >= hi THEN << >> ELSE SubSeq(s, lo + 1, hi)

\* str.strip(): what lies between the first and the last character that is
\* not whitespace
Strip(s) ==
    IF \A i \in 1..Len(s) : s[i] \in Whitespace THEN << >>
    ELSE LET first == CHOOSE i \in 1..Len(s) :
                        /\ s[i] \notin Whitespace
                        /\ \A j \in 1..(i - 1) : s[j] \in Whitespace
             drop == CHOOSE d \in 0..(Len(s) - 1) :
                        /\ s[Len(s) - d] \notin Whitespace
                        /\ \A j \in 0..(d - 1) : s[Len(s) - j] \in Whitespace
         IN  SubSeq(s, first, Len(s) - drop)

(***************************************************************************)
(* PDFProcessor.chunk_text                                                 *)
(***************************************************************************)
\* width of the window tail searched for a natural break
LOOKBACK == 100

\* for i in range(end, lo, -1): if text[i] in [...]: end = i + 1; break
\* i runs down from e0 to lo + 1 and the scan stops at the first i where
\* text[i] raises IndexError or holds a break character
BreakScan(s, e0, lo) ==
    LET Stops(i) == ~ValidIndex(s, i) \/ PyIndex(s, i) \in BreakChars
    IN  IF \A i \in (lo + 1)..e0 : ~Stops(i) THEN [kind |-> "none"]
        ELSE LET d == CHOOSE d \in 0..(e0 - lo - 1) :
                        Stops(e0 - d) /\ \A c \in 0..(d - 1) : ~Stops(e0 - c)
                 i == e0 - d
             IN  IF ~ValidIndex(s, i) THEN [kind |-> "raise"]
                 ELSE [kind |-> "found", end |-> i + 1]

\* the end of the window that starts at st
WindowEnd(s, cs, st) ==
    LET e0 == st + cs
    IN  IF e0 < Len(s)
        THEN LET scan == BreakScan(s, e0, Max(st + cs - LOOKBACK, st))
             IN  IF scan.kind = "found" THEN [kind |-> "ok", end |-> scan.end]
                 ELSE IF scan.kind = "raise" THEN [kind |-> "raise"]
                 ELSE [kind |-> "ok", end |-> e0]
        ELSE [kind |-> "ok", end |-> e0]

\* chunks.append(text[start:end].strip())
EmitChunk(s, st, e) == Strip(PySlice(s, st, e))

\* start = end - overlap if end < len(text) else end
NextStart(s, e, ov) == IF e < Len(s) THEN e - ov ELSE e

\* if len(text) <= chunk_size: return [text]
ShortText(s) == <<s>>

\* entry of chunk_text: the short-text return, or the loop's initialisation
ChunkCall ==
    /\ cpc = "call"
    /\ IF Len(text) <= chunk_size
       THEN /\ chunks' = ShortText(text)
            /\ cpc' = "done"
       ELSE /\ chunks' = << >>
            /\ cpc' = "loop"
    /\ start' = 0
    /\ UNCHANGED <<text, chunk_size, overlap, end, windows>>
    /\ UNCHANGED asst_vars
    /\ UNCHANGED sess_vars

\* one iteration of `while start < len(text)`
ChunkStep ==
    /\ cpc = "loop"
    /\ start < Len(text)
    /\ Len(chunks) < MaxIter
    /\ LET w == WindowEnd(text, chunk_size, start)
       IN  IF w.kind = "raise"
           THEN /\ cpc' = "raised"
                /\ UNCHANGED <<start, end, chunks, windows>>
           ELSE /\ end' = w.end
                /\ chunks' = Append(chunks, EmitChunk(text, start, w.end))
                /\ windows' = Append(windows, <<start, w.end>>)
                /\ start' = NextStart(text, w.end, overlap)
                /\ cpc' = IF start' < Len(text) THEN "loop" ELSE "done"
    /\ UNCHANGED <<text, chunk_size, overlap>>
    /\ UNCHANGED asst_vars
    /\ UNCHANGED sess_vars

\* the whole of chunk_text as a function of its arguments: the loop run to its
\* end.  seen holds the window starts already used: the loop's next state
\* depends on start alone, so a start met twice means the loop never ends.
RECURSIVE ChunkLoop(_, _, _, _, _, _)
ChunkLoop(s, cs, ov, st, acc, seen) ==
    IF ~(st < Len(s)) THEN [kind |-> "ok", chunks |-> acc]
    ELSE IF st \in seen THEN [kind |-> "diverge"]
    ELSE LET w == WindowEnd(s, cs, st)
         IN  IF w.kind = "raise" THEN [kind |-> "raise", error |-> "IndexError"]
             ELSE ChunkLoop(s, cs, ov, NextStart(s, w.end, ov),
                            Append(acc, EmitChunk(s, st, w.end)), seen \cup {st})

chunk_text(s, cs, ov) ==
    IF Len(s) <= cs THEN [kind |-> "ok", chunks |-> ShortText(s)]
    ELSE ChunkLoop(s, cs, ov, 0, << >>, {})

(***************************************************************************)
(* Config                                                                  *)
(***************************************************************************)
CHUNK_SIZE == 1000
CHUNK_OVERLAP == 200
DEFAULT_TOP_K == 5
\* 0.7, in units of 1/10000
SIMILARITY_THRESHOLD == 7000
OPENAI_EMBEDDING_MODEL == "text-embedding-3-large"
OPENAI_CHAT_MODEL == "gpt-4o"
PDF_DIRECTORY == "pdfs"

(***************************************************************************)
(* EmbeddingGenerator                                                      *)
(***************************************************************************)
\* self.model of EmbeddingGenerator
EmbeddingGeneratorModel == "text-embedding-ada-002"

\* get_embedding_dimension
EmbeddingDimension == 1536

\* text.replace('\n', ' ')
ReplaceNewlines(s) == [i \in 1..Len(s) |-> IF s[i] = "\n" THEN " " ELSE s[i]]

\* the vector the embeddings endpoint returns for a cleaned text: a non-empty
\* list of EmbeddingDimension floats, kept as its model, its size and a key
\* of the text it stands for
EmbeddingOf(cleaned) ==
    <<[model |-> EmbeddingGeneratorModel, dim |-> EmbeddingDimension,
       key |-> <<Len(cleaned), cleaned[1], cleaned[Len(cleaned)]>>]>>

\* generate_embedding: api_fails is the outcome of client.embeddings.create
generate_embedding(s, api_fails) ==
    LET cleaned_text == Strip(ReplaceNewlines(s))
    IN  IF cleaned_text = << >>
        THEN [kind |-> "raise", error |-> "ValueError", api_calls |-> 0]
        ELSE IF api_fails
        THEN [kind |-> "raise", error |-> "APIError", api_calls |-> 1]
        ELSE [kind |-> "ok", embedding |-> EmbeddingOf(cleaned_text), api_calls |-> 1]

\* a batch that gives up at its first failure: no text from the first failing
\* one on gets an embedding (the variant C4 is tested against)
generate_embeddings_batch_abort(texts, failing) ==
    [i \in 1..Len(texts) |->
        LET e == generate_embedding(texts[i], i \in failing)
        IN  IF e.kind = "ok" /\ \A j \in 1..i : j \notin failing
            THEN e.embedding ELSE << >>]

\* generate_embeddings_batch: failing is the set of positions (1-based) whose
\* API call fails; a failed text gets the empty list
generate_embeddings_batch(texts, failing) ==
    [i \in 1..Len(texts) |->
        LET e == generate_embedding(texts[i], i \in failing)
        IN  IF e.kind = "ok" THEN e.embedding ELSE << >>]

\* the embeddings API calls generate_embeddings_batch makes, in order: one
\* per text that is not blank, raising for the texts in failing
BatchEmbedCalls(texts, failing) ==
    LET made == SelectSeq([i \in 1..Len(texts) |-> i],
                          LAMBDA i : generate_embedding(texts[i], FALSE).api_calls = 1)
    IN  [k \in 1..Len(made) |->
            [svc |-> "embed", item |-> made[k], raised |-> made[k] \in failing]]

(***************************************************************************)
(* PineconeManager                                                         *)
(***************************************************************************)
\* batch_size of upsert_documents
BATCH_SIZE == 100

\* doc.get('text', '')[:1000]
META_TEXT_LIMIT == 1000

\* identifiers derived from the position in the run instead of uuid4, so
\* that a second run writes over the records of the first (the variant C13
\* is tested against)
BuildVectorsById(documents, embeddings, base) ==
    LET kept == SelectSeq([i \in 1..Len(documents) |-> i],
                          LAMBDA i : embeddings[i] # << >>)
    IN  [k \in 1..Len(kept) |->
            LET doc == documents[kept[k]]
            IN  [id |-> kept[k],
                 values |-> embeddings[kept[k]],
                 metadata |-> [filename |-> doc.filename,
                               text |-> PySlice(doc.text, 0, META_TEXT_LIMIT),
                               chunk_index |-> kept[k] - 1,
                               full_text |-> doc.text]]]

\* the for loop of upsert_documents: one vector per non-empty embedding, with
\* a fresh uuid4 (the identifiers after base) and chunk_index the position i
\* of the enumerate over all (doc, embedding) pairs
BuildVectors(documents, embeddings, base) ==
    LET kept == SelectSeq([i \in 1..Len(documents) |-> i],
                          LAMBDA i : embeddings[i] # << >>)
    IN  [k \in 1..Len(kept) |->
            LET doc == documents[kept[k]]
            IN  [id |-> base + k,
                 values |-> embeddings[kept[k]],
                 metadata |-> [filename |-> doc.filename,
                               text |-> PySlice(doc.text, 0, META_TEXT_LIMIT),
                               chunk_index |-> kept[k] - 1,
                               full_text |-> doc.text]]]

\* number of index.upsert calls needed for n vectors
NumBatches(n) == (n + BATCH_SIZE - 1) \div BATCH_SIZE

\* a call that sends all the vectors, whatever the batch (the variant C12 is
\* tested against)
BatchWhole(vectors, b) == vectors

\* vectors[i:i + batch_size] of the b-th call (b from 1)
Batch(vectors, b) ==
    SubSeq(vectors, (b - 1) * BATCH_SIZE + 1, Min(b * BATCH_SIZE, Len(vectors)))

\* index.upsert(vectors=batch) when it succeeds: a vector whose id is already
\* in the index replaces that record, the others are added
IndexUpsert(index, batch) ==
    LET old == {index[j].id : j \in DOMAIN index}
        new == {batch[i].id : i \in DOMAIN batch}
    IN  IF old \cap new = {} THEN index \o batch
        ELSE [j \in DOMAIN index |->
                IF index[j].id \in new
                THEN batch[CHOOSE i \in DOMAIN batch : batch[i].id = index[j].id]
                ELSE index[j]]
             \o SelectSeq(batch, LAMBDA v : v.id \notin old)

\* what the index holds after the first upto calls succeeded
RECURSIVE Upserted(_, _, _)
Upserted(acc, vectors, upto) ==
    IF upto <= 0 THEN acc
    ELSE IndexUpsert(Upserted(acc, vectors, upto - 1), Batch(vectors, upto))

\* the identifiers sent by each of the first n calls
SentIds(vectors, n) ==
    [b \in 1..n |-> [i \in DOMAIN Batch(vectors, b) |-> Batch(vectors, b)[i].id]]

\* an all-or-nothing upsert: a failing call leaves the index as it was before
\* the run (the variant C18 is tested against)
upsert_documents_atomic(index, documents, embeddings, base, fail_at) ==
    IF Len(documents) # Len(embeddings)
    THEN [kind |-> "raise", error |-> "ValueError", index |-> index,
          ids |-> 0, upserts |-> 0, sent |-> << >>]
    ELSE LET vectors == BuildVectors(documents, embeddings, base)
             n == NumBatches(Len(vectors))
         IN  IF fail_at \in 1..n
             THEN [kind |-> "raise", error |-> "UpsertError",
                   index |-> index,
                   ids |-> Len(vectors), upserts |-> fail_at,
                   sent |-> SentIds(vectors, fail_at)]
             ELSE [kind |-> "ok",
                   index |-> Upserted(index, vectors, n),
                   ids |-> Len(vectors), upserts |-> n,
                   sent |-> SentIds(vectors, n)]

\* upsert_documents: fail_at is the number of the index.upsert call that
\* fails, 0 when none does
upsert_documents(index, documents, embeddings, base, fail_at) ==
    IF Len(documents) # Len(embeddings)
    THEN [kind |-> "raise", error |-> "ValueError", index |-> index,
          ids |-> 0, upserts |-> 0, sent |-> << >>]
    ELSE LET vectors == BuildVectors(documents, embeddings, base)
             n == NumBatches(Len(vectors))
         IN  IF fail_at \in 1..n
             THEN [kind |-> "raise", error |-> "UpsertError",
                   index |-> Upserted(index, vectors, fail_at - 1),
                   ids |-> Len(vectors), upserts |-> fail_at,
                   sent |-> SentIds(vectors, fail_at)]
             ELSE [kind |-> "ok",
                   index |-> Upserted(index, vectors, n),
                   ids |-> Len(vectors), upserts |-> n,
                   sent |-> SentIds(vectors, n)]

\* what the log of calls keeps of response.matches: all but the texts
Returned(matches) ==
    [i \in 1..Len(matches) |->
        [id |-> matches[i].id,
         score |-> matches[i].score,
         filename |-> matches[i].metadata.filename,
         chunk_index |-> matches[i].metadata.chunk_index]]

\* the loop over response.matches of query_similar_documents
QueryResults(matches) ==
    [i \in 1..Len(matches) |->
        [id |-> matches[i].id,
         score |-> matches[i].score,
         filename |-> matches[i].metadata.filename,
         text |-> matches[i].metadata.full_text,
         chunk_index |-> matches[i].metadata.chunk_index]]

(***************************************************************************)
(* ConversationalAssistant.index_pdfs                                      *)
(***************************************************************************)
\* the two loops that fill all_chunks and chunk_metadata; a document whose
\* chunking does not return normally ends the whole with that outcome
RECURSIVE ChunkMetadata(_)
ChunkMetadata(documents) ==
    IF documents = << >> THEN [kind |-> "ok", meta |-> << >>]
    ELSE LET doc == Head(documents)
             c == chunk_text(doc.text, CHUNK_SIZE, CHUNK_OVERLAP)
         IN  IF c.kind # "ok" THEN [kind |-> c.kind]
             ELSE LET rest == ChunkMetadata(Tail(documents))
                  IN  IF rest.kind # "ok" THEN rest
                      ELSE [kind |-> "ok",
                            meta |-> [i \in 1..Len(c.chunks) |->
                                        [filename |-> doc.filename,
                                         text |-> c.chunks[i],
                                         path |-> doc.path,
                                         chunk_index |-> i - 1,
                                         total_chunks |-> Len(c.chunks)]]
                                     \o rest.meta]

\* len([e for e in embeddings if e])
CountNonEmpty(embeddings) ==
    Cardinality({i \in 1..Len(embeddings) : embeddings[i] # << >>})

\* the result returned when process_all_pdfs found nothing
NoDocumentsResult ==
    [kind |-> "return", success |-> FALSE,
     message |-> "Nenhum documento encontrado para processar.",
     documents_processed |-> 0]

\* the result returned at the end of index_pdfs
IndexedResult(documents, all_chunks, embeddings) ==
    [kind |-> "return", success |-> TRUE,
     message |-> "Documentos indexados com sucesso.",
     documents_processed |-> Len(documents),
     chunks_created |-> Len(all_chunks),
     embeddings_generated |-> CountNonEmpty(embeddings)]

\* an exception leaving a public method: upsert_documents re-raises and
\* index_pdfs has no handler
Raised(error) == [kind |-> "raise", error |-> error]

\* the index.upsert calls made, in order, each with the identifiers it sent
UpsertCalls(sent, fail_at) ==
    [b \in DOMAIN sent |->
        [svc |-> "upsert", batch |-> b, raised |-> b = fail_at, ids |-> sent[b]]]

(***************************************************************************)
(* ConversationalAssistant.ask_question                                    *)
(***************************************************************************)
\* a query that ignores the requested top_k (the variant C16 is tested
\* against)
EffectiveTopKDefault(top_k) == DEFAULT_TOP_K

\* top_k = top_k or Config.DEFAULT_TOP_K  (0 stands for None)
EffectiveTopK(top_k) == IF top_k = 0 THEN DEFAULT_TOP_K ELSE top_k

\* a filter that drops a score equal to the threshold (the variant C2 is
\* tested against)
RelevantDocsStrict(similar_docs) ==
    SelectSeq(similar_docs, LAMBDA doc : doc.score > SIMILARITY_THRESHOLD)

\* the list comprehension that keeps doc['score'] >= SIMILARITY_THRESHOLD
RelevantDocs(similar_docs) ==
    SelectSeq(similar_docs, LAMBDA doc : doc.score >= SIMILARITY_THRESHOLD)

\* truncation to 3 decimals instead of rounding (the variant C10 is tested
\* against)
Round3Truncated(score) == score \div 10

\* round(score, 3): from units of 1/10000 to units of 1/1000.  A score whose
\* fourth decimal is 5 has no exact binary form and rounds by its float
\* value; such scores are not drawn, and a true tie rounds half to even.
Round3(score) ==
    LET q == score \div 10
        r == score % 10
    IN  IF r < 5 THEN q
        ELSE IF r > 5 THEN q + 1
        ELSE IF q % 2 = 0 THEN q ELSE q + 1

\* the list comprehension that builds sources
Sources(relevant_docs) ==
    [i \in 1..Len(relevant_docs) |->
        [filename |-> relevant_docs[i].filename,
         score |-> Round3(relevant_docs[i].score),
         chunk_index |-> relevant_docs[i].chunk_index]]

\* _prepare_context: per document a header line with its ordinal and file
\* name, its text, and a blank line
PrepareContext(documents) ==
    [j \in 1..(3 * Len(documents)) |->
        LET i == (j + 2) \div 3
        IN  IF j % 3 = 1 THEN <<"Documento", i, documents[i].filename>>
            ELSE IF j % 3 = 2 THEN documents[i].text
            ELSE << >>]

\* the text _generate_answer returns when the chat call raises
FallbackAnswer == "Desculpe, ocorreu um erro ao gerar a resposta. Tente novamente."

\* _generate_answer: chat_fails is the outcome of chat.completions.create,
\* content the text of its first choice
GenerateAnswer(chat_fails, content) ==
    IF chat_fails THEN FallbackAnswer ELSE Strip(content)

\* a guard that does not strip: only the empty string is blank (the variant
\* C3 is tested against)
IsBlankNoStrip(question) == question = << >>

\* if not question.strip()
IsBlank(question) == Strip(question) = << >>

\* the result of the empty-question guard
EmptyQuestionResult ==
    [kind |-> "return", success |-> FALSE,
     message |-> "Pergunta nao pode estar vazia.",
     answer |-> "", sources |-> << >>]

\* the result of `if not similar_docs`
NothingFoundResult ==
    [kind |-> "return", success |-> TRUE,
     message |-> "Nenhum documento relevante encontrado.",
     answer |-> "Desculpe, nao encontrei informacoes relevantes para responder sua pergunta.",
     sources |-> << >>]

\* the result of `if not relevant_docs`
NotRelevantResult ==
    [kind |-> "return", success |-> TRUE,
     message |-> "Documentos encontrados nao sao suficientemente relevantes.",
     answer |-> "Encontrei alguns documentos, mas eles nao parecem ser muito relevantes para sua pergunta. Pode reformular a pergunta?",
     sources |-> << >>]

\* the result of the except clause of ask_question
AskFailedResult(error) ==
    [kind |-> "return", success |-> FALSE,
     message |-> <<"Erro ao processar pergunta: ", error>>,
     answer |-> "", sources |-> << >>]

\* the result returned at the end of the try block
AnsweredResult(answer, similar_docs, relevant_docs) ==
    [kind |-> "return", success |-> TRUE,
     message |-> "Resposta gerada com sucesso.",
     answer |-> answer,
     sources |-> Sources(relevant_docs),
     documents_found |-> Len(similar_docs),
     relevant_documents |-> Len(relevant_docs)]

(***************************************************************************)
(* Texts of the chunker's specification.                                   *)
(***************************************************************************)
Alphabet == {"a", ".", " "}

Texts == UNION {[1..n -> Alphabet] : n \in 0..MaxTextLen}

\* init_session_state, with an assistant already constructed
SessionIdle ==
    /\ assistant = "ready"
    /\ chat_history = << >>
    /\ system_status = [kind |-> "none"]
    /\ ui = [action |-> "none"]

AsstIdle ==
    /\ SessionIdle
    /\ store = << >>
    /\ next_id = 0
    /\ op = [name |-> "none"]
    /\ result = [kind |-> "none"]
    /\ calls = << >>

InitChunk ==
    /\ text \in Texts
    /\ chunk_size \in 1..MaxChunkSize
    /\ overlap \in 0..MaxOverlap
    /\ start = 0
    /\ end = 0
    /\ chunks = << >>
    /\ windows = << >>
    /\ cpc = "call"
    /\ AsstIdle

NextChunk == ChunkCall \/ ChunkStep

SpecChunk == InitChunk /\ [][NextChunk]_vars

(***************************************************************************)
(* The assistant: inputs of its specification.                             *)
(***************************************************************************)
MaxIds == 5
MaxMatches == 2

\* texts process_all_pdfs can hand over (extract_text_from_pdf strips them and
\* empty ones are dropped): one chunk, two chunks (the first cut after the
\* '.' at offset 1000), three chunks
ShortDoc == <<"a", "\n", "b">>
TwoChunkDoc == [i \in 1..1100 |-> IF i = 1001 THEN "." ELSE "a"]
ThreeChunkDoc == [i \in 1..1900 |-> IF i = 1 THEN "c" ELSE "b"]
DocTexts == <<ShortDoc, TwoChunkDoc, ThreeChunkDoc>>

FileName(i) == <<"doc", i, ".pdf">>

\* the documents of one directory listing: the i-th file holds text t[i]
Documents(t) ==
    [i \in 1..Len(t) |->
        [filename |-> FileName(i),
         text |-> DocTexts[t[i]],
         path |-> <<PDF_DIRECTORY, FileName(i)>>]]

\* the directory listings indexed, each the texts of its files: no document,
\* one short document, a two-chunk and a three-chunk one
Listings == {<< >>, <<1>>, <<2, 3>>}

\* the listings indexed before questions are asked
AskListings == {<< >>, <<1>>, <<2, 1>>}

\* questions: empty, whitespace only, and a real one
Questions == {<< >>, <<" ", "\n">>, <<"q", "?">>}

\* top_k arguments, 0 for None
TopKs == {0, 1}

\* similarity scores the index reports, in units of 1/10000
Scores == {6500, 7000, 7006}

\* message.content of the first choice of a completion
Contents == {<<" ", "o", "k", "\n">>}

\* response.matches of index.query: at most k records of the index, no record
\* twice, by descending score
Matches(index, k) ==
    UNION {
        {[i \in 1..n |-> [id |-> index[p[i]].id,
                          score |-> s[i],
                          metadata |-> index[p[i]].metadata]] :
            <<p, s>> \in
                {ps \in [1..n -> DOMAIN index] \X [1..n -> Scores] :
                    /\ \A i, j \in 1..n : i # j => ps[1][i] # ps[1][j]
                    /\ \A i \in 1..(n - 1) : ps[2][i] >= ps[2][i + 1]}} :
        n \in 0..Min(Min(k, Len(index)), MaxMatches)}

ChunkIdle ==
    /\ text = << >>
    /\ chunk_size = CHUNK_SIZE
    /\ overlap = CHUNK_OVERLAP
    /\ start = 0
    /\ end = 0
    /\ chunks = << >>
    /\ windows = << >>
    /\ cpc = "idle"

\* after ConversationalAssistant(): an index that exists, nothing asked yet
Init ==
    /\ ChunkIdle
    /\ AsstIdle

\* index_pdfs, with the documents process_all_pdfs returns, the set of chunks
\* whose embedding call fails and the upsert call that fails (0: none).
\* max_ids caps the number of identifiers handed out.
\* (A local value is bound with \E over a singleton so that it is computed
\* once.)
IndexPdfsRun(listings, max_ids) ==
    \E listing \in listings : \E documents \in {Documents(listing)} :
        IF documents = << >>
        THEN /\ op' = [name |-> "index_pdfs", listing |-> listing,
                       failing |-> {}, fail_at |-> 0]
             /\ result' = NoDocumentsResult
             /\ calls' = << >>
             /\ UNCHANGED <<store, next_id>>
             /\ UNCHANGED chunk_vars
        ELSE \E cm \in {ChunkMetadata(documents)} :
            IF cm.kind # "ok"
            THEN /\ op' = [name |-> "index_pdfs", listing |-> listing,
                           failing |-> {}, fail_at |-> 0]
                 /\ result' = IF cm.kind = "raise" THEN Raised("IndexError")
                              ELSE [kind |-> "diverge"]
                 /\ calls' = << >>
                 /\ UNCHANGED <<store, next_id>>
                 /\ UNCHANGED chunk_vars
            ELSE \E chunk_metadata \in {cm.meta},
                    all_chunks \in {[i \in 1..Len(cm.meta) |-> cm.meta[i].text]} :
                 /\ next_id + Len(all_chunks) <= max_ids
                 /\ \E failing \in SUBSET (1..Len(all_chunks)) :
                    \E embeddings \in {generate_embeddings_batch(all_chunks, failing)} :
                    \E fail_at \in 0..NumBatches(CountNonEmpty(embeddings)) :
                    \E u \in {upsert_documents(store, chunk_metadata, embeddings,
                                               next_id, fail_at)} :
                       /\ op' = [name |-> "index_pdfs", listing |-> listing,
                                 failing |-> failing, fail_at |-> fail_at]
                       /\ store' = u.index
                       /\ next_id' = next_id + u.ids
                       /\ calls' = BatchEmbedCalls(all_chunks, failing)
                                      \o UpsertCalls(u.sent, fail_at)
                       /\ result' = IF u.kind = "ok"
                                    THEN IndexedResult(documents, all_chunks, embeddings)
                                    ELSE Raised(u.error)
                       /\ UNCHANGED chunk_vars

\* index_pdfs called directly on a constructed assistant
IndexPdfs ==
    /\ assistant = "ready"
    /\ IndexPdfsRun(Listings, MaxIds)
    /\ UNCHANGED sess_vars

\* ask_question, with the outcome of each external call it reaches
AskQuestionRun(questions, top_ks) ==
    /\ \E question \in questions, top_k \in top_ks :
        /\ op' = [name |-> "ask_question", question |-> question, top_k |-> top_k]
        /\ IF IsBlank(question)
           THEN /\ result' = EmptyQuestionResult
                /\ calls' = << >>
           ELSE \E embed_fails \in BOOLEAN :
                \E k \in {EffectiveTopK(top_k)},
                   e \in {generate_embedding(question, embed_fails)},
                   embed_call \in {[svc |-> "embed", item |-> 0,
                                    raised |-> embed_fails]} :
             IF e.kind = "raise"
             THEN /\ result' = AskFailedResult(e.error)
                  /\ calls' = IF e.api_calls = 1 THEN <<embed_call>> ELSE << >>
             ELSE \E query_fails \in BOOLEAN :
                IF query_fails
                THEN /\ result' = AskFailedResult("QueryError")
                     /\ calls' = <<embed_call,
                                   [svc |-> "query", vector |-> e.embedding,
                                    top_k |-> k, raised |-> TRUE,
                                    returned |-> << >>]>>
                ELSE \E matches \in Matches(store, k) :
                     \E similar_docs \in {QueryResults(matches)} :
                     \E relevant_docs \in {RelevantDocs(similar_docs)},
                        query_call \in {[svc |-> "query", vector |-> e.embedding,
                                         top_k |-> k, raised |-> FALSE,
                                         returned |-> Returned(matches)]} :
                    IF similar_docs = << >>
                    THEN /\ result' = NothingFoundResult
                         /\ calls' = <<embed_call, query_call>>
                    ELSE IF relevant_docs = << >>
                    THEN /\ result' = NotRelevantResult
                         /\ calls' = <<embed_call, query_call>>
                    ELSE \E chat_fails \in BOOLEAN, content \in Contents :
                         \E context \in {PrepareContext(relevant_docs)},
                            answer \in {GenerateAnswer(chat_fails, content)} :
                            /\ result' = AnsweredResult(answer, similar_docs,
                                                        relevant_docs)
                            /\ calls' = <<embed_call, query_call,
                                          [svc |-> "chat", raised |-> chat_fails,
                                           model |-> OPENAI_CHAT_MODEL,
                                           question |-> question,
                                           context |-> context]>>
    /\ UNCHANGED <<store, next_id>>
    /\ UNCHANGED chunk_vars

\* ask_question called directly on a constructed assistant
AskQuestion ==
    /\ assistant = "ready"
    /\ AskQuestionRun(Questions, TopKs)
    /\ UNCHANGED sess_vars

Next == IndexPdfs

Spec == Init /\ [][Next]_vars

\* the index after index_pdfs ran once on documents with no call failing
IndexedStore(listing) ==
    IF listing = << >> THEN << >>
    ELSE LET cm == ChunkMetadata(Documents(listing))
             all_chunks == [i \in 1..Len(cm.meta) |-> cm.meta[i].text]
         IN  upsert_documents(<< >>, cm.meta,
                              generate_embeddings_batch(all_chunks, {}), 0, 0).index

\* questions are asked by a fresh assistant of an index that one earlier run
\* of index_pdfs filled
InitAsk ==
    /\ ChunkIdle
    /\ SessionIdle
    /\ \E listing \in AskListings : store = IndexedStore(listing)
    /\ next_id = Len(store)
    /\ op = [name |-> "none"]
    /\ result = [kind |-> "none"]
    /\ calls = << >>

NextAsk == AskQuestion

SpecAsk == InitAsk /\ [][NextAsk]_vars

(***************************************************************************)
(* upsert_documents on its own, with enough records for several batches.   *)
(***************************************************************************)
MaxRecords == 201

\* positions whose embedding may have failed
EmptyAt == {1, 100}

\* n chunk dictionaries as index_pdfs builds them
UpsertDocs(n) ==
    [i \in 1..n |->
        [filename |-> FileName(1),
         text |-> <<"t">>,
         path |-> <<PDF_DIRECTORY, FileName(1)>>,
         chunk_index |-> i - 1,
         total_chunks |-> n]]

\* their embeddings, the empty list at the positions in empty; extra more
\* embeddings than documents
UpsertEmbeddings(n, empty, extra) ==
    [i \in 1..(n + extra) |-> IF i \in empty THEN << >> ELSE EmbeddingOf(<<"t">>)]

\* upsert_documents, as the first operation on a fresh index
UpsertDocuments ==
    /\ assistant = "ready"
    /\ op.name = "none"
    /\ \E n \in 0..MaxRecords, extra \in {0, 1} :
       \E empty \in SUBSET (EmptyAt \cap 1..n) :
       \E embeddings \in {UpsertEmbeddings(n, empty, extra)} :
       \E fail_at \in 0..(IF extra = 0 THEN NumBatches(CountNonEmpty(embeddings))
                          ELSE 0) :
       \E u \in {upsert_documents(store, UpsertDocs(n), embeddings, next_id,
                                  fail_at)} :
          /\ op' = [name |-> "upsert_documents", n |-> n, empty |-> empty,
                    extra |-> extra, fail_at |-> fail_at]
          /\ store' = u.index
          /\ next_id' = next_id + u.ids
          /\ calls' = UpsertCalls(u.sent, fail_at)
          /\ result' = IF u.kind = "ok" THEN [kind |-> "return"]
                       ELSE Raised(u.error)
    /\ UNCHANGED chunk_vars
    /\ UNCHANGED sess_vars

NextUpsert == UpsertDocuments

SpecUpsert == Init /\ [][NextUpsert]_vars

(***************************************************************************)
(* The assistant from construction on: __init__, index_pdfs, ask_question, *)
(* get_system_status and the manager's delete_all_vectors.                 *)
(***************************************************************************)
\* values of an API key in the environment: unset or empty, and set
Keys == {"", "key"}

\* a validation that looks at the OpenAI key only (the variant C14 is tested
\* against)
MissingVarsOpenAIOnly(openai_key, pinecone_key) ==
    IF openai_key = "" THEN <<"OPENAI_API_KEY">> ELSE << >>

\* the loop of validate_config over required_vars
MissingVars(openai_key, pinecone_key) ==
    (IF openai_key = "" THEN <<"OPENAI_API_KEY">> ELSE << >>)
        \o (IF pinecone_key = "" THEN <<"PINE_CONE_API_KEY">> ELSE << >>)

\* Config.validate_config
validate_config(openai_key, pinecone_key) ==
    LET missing_vars == MissingVars(openai_key, pinecone_key)
    IN  IF missing_vars # << >>
        THEN [kind |-> "raise", error |-> "ValueError",
              message |-> <<"Variaveis de ambiente obrigatorias nao encontradas: ",
                            missing_vars>>]
        ELSE [kind |-> "ok"]

\* dimension of the index _setup_index creates
IndexDimension == 1536

\* the calls _setup_index makes to Pinecone; fail_at is the one that raises
\* (0: none)
SetupCalls(index_exists, fail_at) ==
    LET all == <<"list_indexes">>
                  \o (IF index_exists THEN << >> ELSE <<"create_index">>)
                  \o <<"Index">>
        n == IF fail_at \in 1..Len(all) THEN fail_at ELSE Len(all)
    IN  [i \in 1..n |-> [svc |-> all[i], raised |-> i = fail_at]]

\* the attributes __init__ sets, in order
Components == <<"pdf_processor", "embedding_generator", "pinecone_manager",
                "openai_client">>

\* ConversationalAssistant(): the keys of the environment, whether the index
\* exists, and the call of _setup_index that fails
Construct ==
    /\ assistant = "none"
    /\ \E openai_key \in Keys, pinecone_key \in Keys,
          index_exists \in BOOLEAN, fail_at \in 0..3 :
       \E v \in {validate_config(openai_key, pinecone_key)} :
          /\ op' = [name |-> "__init__", openai_key |-> openai_key,
                    pinecone_key |-> pinecone_key]
          /\ IF v.kind = "raise"
             THEN /\ result' = [kind |-> "raise", error |-> v.error,
                                message |-> v.message, initialized |-> << >>]
                  /\ calls' = << >>
                  /\ assistant' = "none"
             ELSE IF openai_key = ""
             THEN \* EmbeddingGenerator.__init__ finds no key
                  /\ result' = [kind |-> "raise", error |-> "ValueError",
                                message |-> <<"API key do OpenAI nao encontrada.">>,
                                initialized |-> SubSeq(Components, 1, 1)]
                  /\ calls' = << >>
                  /\ assistant' = "none"
             ELSE IF pinecone_key = ""
             THEN \* PineconeManager.__init__ finds no key
                  /\ result' = [kind |-> "raise", error |-> "ValueError",
                                message |-> <<"API key do Pinecone nao encontrada.">>,
                                initialized |-> SubSeq(Components, 1, 2)]
                  /\ calls' = << >>
                  /\ assistant' = "none"
             ELSE \E setup \in {SetupCalls(index_exists, fail_at)} :
                  /\ calls' = setup
                  /\ IF setup[Len(setup)].raised
                     THEN /\ result' = [kind |-> "raise", error |-> "SetupError",
                                        message |-> << >>,
                                        initialized |-> SubSeq(Components, 1, 2)]
                          /\ assistant' = "none"
                     ELSE /\ result' = [kind |-> "return",
                                        initialized |-> Components]
                          /\ assistant' = "ready"
    /\ UNCHANGED <<store, next_id>>
    /\ UNCHANGED <<chat_history, system_status, ui>>
    /\ UNCHANGED chunk_vars

\* dict.get(key, default)
Get(d, key, default) == IF key \in DOMAIN d THEN d[key] ELSE default

\* get_index_stats: stats_fail is the outcome of describe_index_stats
get_index_stats(index, stats_fail) ==
    IF stats_fail THEN << >>
    ELSE [total_vectors |-> Len(index),
          dimension |-> IndexDimension,
          index_fullness |-> 0]

\* get_system_status
get_system_status(index, stats_fail) ==
    LET pinecone_stats == get_index_stats(index, stats_fail)
    IN  [kind |-> "return",
         pinecone_connected |-> TRUE,
         total_vectors |-> Get(pinecone_stats, "total_vectors", 0),
         index_dimension |-> Get(pinecone_stats, "dimension", 0),
         index_fullness |-> Get(pinecone_stats, "index_fullness", 0),
         pdf_directory |-> PDF_DIRECTORY,
         embedding_model |-> OPENAI_EMBEDDING_MODEL,
         chat_model |-> OPENAI_CHAT_MODEL]

\* the call get_index_stats makes
StatsCalls(stats_fail) == <<[svc |-> "stats", raised |-> stats_fail]>>

\* get_system_status called directly on a constructed assistant
GetSystemStatus ==
    /\ assistant = "ready"
    /\ \E stats_fail \in BOOLEAN :
          /\ op' = [name |-> "get_system_status"]
          /\ result' = get_system_status(store, stats_fail)
          /\ calls' = StatsCalls(stats_fail)
    /\ UNCHANGED <<store, next_id>>
    /\ UNCHANGED sess_vars
    /\ UNCHANGED chunk_vars

\* PineconeManager.delete_all_vectors: index.delete(delete_all=True), which
\* removes every record or fails and is re-raised
DeleteAllVectors ==
    /\ assistant = "ready"
    /\ \E delete_fails \in BOOLEAN :
          /\ op' = [name |-> "delete_all_vectors"]
          /\ store' = IF delete_fails THEN store ELSE << >>
          /\ result' = IF delete_fails THEN Raised("DeleteError")
                       ELSE [kind |-> "return"]
          /\ calls' = <<[svc |-> "delete", raised |-> delete_fails]>>
    /\ UNCHANGED next_id
    /\ UNCHANGED sess_vars
    /\ UNCHANGED chunk_vars

\* the inputs of this specification: short documents only, a blank and a
\* real question with the default top_k
MaxLifeIds == 2
LifeListings == {<< >>, <<1>>, <<1, 1>>}
LifeQuestions == {<<" ">>, <<"q", "?">>}

\* index_pdfs on the constructed assistant
LifeIndexPdfs ==
    /\ assistant = "ready"
    /\ IndexPdfsRun(LifeListings, MaxLifeIds)
    /\ UNCHANGED sess_vars

\* ask_question on the constructed assistant
LifeAskQuestion ==
    /\ assistant = "ready"
    /\ AskQuestionRun(LifeQuestions, {0})
    /\ UNCHANGED sess_vars

\* before ConversationalAssistant() is called: an empty index, no session
InitLife ==
    /\ ChunkIdle
    /\ store = << >>
    /\ next_id = 0
    /\ op = [name |-> "none"]
    /\ result = [kind |-> "none"]
    /\ calls = << >>
    /\ assistant = "none"
    /\ chat_history = << >>
    /\ system_status = [kind |-> "none"]
    /\ ui = [action |-> "none"]

NextLife ==
    \/ Construct
    \/ LifeIndexPdfs
    \/ LifeAskQuestion
    \/ GetSystemStatus
    \/ DeleteAllVectors

SpecLife == InitLife /\ [][NextLife]_vars

(***************************************************************************)
(* The Streamlit page (frontend/app.py): one action per widget event, each *)
(* a run of main() in a session whose assistant is constructed.            *)
(***************************************************************************)
MaxHistory == 2
MaxUIIds == 2

\* what the page can be given: an empty, a blank and a real question; an
\* upload directory whose PDFs yield no text, and one with a short document
UIQuestions == {<< >>, <<" ">>, <<"q", "?">>}
UIListings == {<< >>, <<1>>}

\* handle_chat_interface returns before drawing the chat when the status
\* counts no vector
ChatShown == ~(system_status.kind = "return" /\ system_status.total_vectors = 0)

\* an append that does not look at success (the variant C19 is tested
\* against)
HistoryAfterAlways(history, question, res) ==
    Append(history, <<question, res.answer, res.sources>>)

\* if result['success']: chat_history.append((question, answer, sources))
HistoryAfter(history, question, res) ==
    IF res.success
    THEN Append(history, <<question, res.answer, res.sources>>)
    ELSE history

\* the form is submitted: `if ask_button and question`
SubmitQuestion ==
    /\ assistant = "ready"
    /\ ChatShown
    /\ Len(chat_history) < MaxHistory
    /\ \E question \in UIQuestions :
          /\ ui' = [action |-> "submit", question |-> question]
          /\ IF question = << >>
             THEN /\ UNCHANGED asst_vars
                  /\ UNCHANGED chunk_vars
                  /\ UNCHANGED chat_history
             ELSE /\ AskQuestionRun({question}, {0})
                  /\ chat_history' = HistoryAfter(chat_history, question, result')
    /\ UNCHANGED <<assistant, system_status>>

\* the button "Limpar Chat"
ClearChat ==
    /\ assistant = "ready"
    /\ ChatShown
    /\ chat_history' = << >>
    /\ ui' = [action |-> "clear"]
    /\ UNCHANGED <<assistant, system_status>>
    /\ UNCHANGED asst_vars
    /\ UNCHANGED chunk_vars

\* the button "Atualizar Status"
RefreshStatus ==
    /\ assistant = "ready"
    /\ \E stats_fail \in BOOLEAN :
          /\ op' = [name |-> "get_system_status"]
          /\ result' = get_system_status(store, stats_fail)
          /\ calls' = StatsCalls(stats_fail)
          /\ system_status' = result'
    /\ ui' = [action |-> "refresh"]
    /\ UNCHANGED <<store, next_id>>
    /\ UNCHANGED <<assistant, chat_history>>
    /\ UNCHANGED chunk_vars

\* the button "Indexar Documentos": index_pdfs, and on success the status is
\* fetched again; an exception out of index_pdfs ends the run
IndexDocuments ==
    /\ assistant = "ready"
    /\ IndexPdfsRun(UIListings, MaxUIIds)
    /\ IF result'.kind = "return" /\ result'.success
       THEN \E stats_fail \in BOOLEAN :
               system_status' = get_system_status(store', stats_fail)
       ELSE UNCHANGED system_status
    /\ ui' = [action |-> "index"]
    /\ UNCHANGED <<assistant, chat_history>>

\* the session after the first run of main(): the assistant was constructed
\* on an index that is empty or holds one document, and the status fetched
InitUI ==
    /\ ChunkIdle
    /\ \E listing \in UIListings : store = IndexedStore(listing)
    /\ next_id = Len(store)
    /\ op = [name |-> "get_system_status"]
    /\ \E stats_fail \in BOOLEAN :
          /\ result = get_system_status(store, stats_fail)
          /\ calls = StatsCalls(stats_fail)
    /\ system_status = result
    /\ assistant = "ready"
    /\ chat_history = << >>
    /\ ui = [action |-> "none"]

NextUI ==
    \/ SubmitQuestion
    \/ ClearChat
    \/ RefreshStatus
    \/ IndexDocuments

SpecUI == InitUI /\ [][NextUI]_vars

(***************************************************************************)
(* Claims about chunk_text (specification SpecChunk).                      *)
(***************************************************************************)
\* C6: chunking terminates for every (chunk_size, overlap): every iteration
\* of the scan that completes moves the window start forward by at least 1.
C6_ForwardProgress ==
    [][(cpc = "loop" /\ cpc' \in {"loop", "done"}) => start' >= start + 1]_vars

\* C7: for a text longer than chunk_size, every emitted chunk has
\* length <= chunk_size.
C7_ChunkLenBound ==
    (Len(text) > chunk_size) =>
        \A k \in DOMAIN chunks : Len(chunks[k]) <= chunk_size

\* C8: for a text longer than chunk_size and 0 <= overlap < chunk_size the
\* window starts are never negative and strictly increasing, each window
\* starts at (previous end - overlap), at or before the previous end, and on
\* return the last window reaches the end of the text and every character
\* position lies in some window.
C8_WindowsCover ==
    (Len(text) > chunk_size /\ overlap < chunk_size) =>
        /\ \A k \in DOMAIN windows : windows[k][1] >= 0
        /\ \A k \in 1..(Len(windows) - 1) :
              /\ windows[k + 1][1] > windows[k][1]
              /\ windows[k + 1][1] = windows[k][2] - overlap
              /\ windows[k + 1][1] <= windows[k][2]
        /\ (cpc = "done") =>
              /\ windows # << >>
              /\ windows[Len(windows)][2] >= Len(text)
              /\ \A p \in 0..(Len(text) - 1) :
                    \E k \in DOMAIN windows :
                        windows[k][1] <= p /\ p < windows[k][2]

\* C9: for a text with len(text) <= chunk_size (the empty text included)
\* chunk_text returns exactly one chunk, the input with leading and trailing
\* whitespace trimmed.
C9_ShortTextTrimmed ==
    (cpc = "done" /\ Len(text) <= chunk_size) => chunks = <<Strip(text)>>

(***************************************************************************)
(* Claims about index_pdfs (specification Spec).                           *)
(***************************************************************************)
\* total number of chunks over the documents of a listing
RECURSIVE TotalChunks(_)
TotalChunks(listing) ==
    IF listing = << >> THEN 0
    ELSE Len(chunk_text(DocTexts[Head(listing)], CHUNK_SIZE, CHUNK_OVERLAP).chunks)
            + TotalChunks(Tail(listing))

\* the positions (from 1) of the embedding calls index_pdfs made
EmbeddedItems == {calls[c].item : c \in {d \in DOMAIN calls : calls[d].svc = "embed"}}

\* C4: for a non-empty document set and any subset of chunks whose embedding
\* call fails (no upsert call failing), index_pdfs returns success=true with
\* chunks_created the total number of chunks and embeddings_generated the
\* number of chunks whose embedding succeeded; the store gains exactly one
\* record per successfully embedded chunk, in order, and none for a failed
\* one; and an embedding is requested for every chunk, those after a failed
\* one included.
C4_PartialIndexing ==
    [][(op'.name = "index_pdfs" /\ op'.listing # << >> /\ op'.fail_at = 0) =>
        LET total == TotalChunks(op'.listing)
            good == (1..total) \ op'.failing
            n == Cardinality(good)
        IN  /\ result'.kind = "return"
            /\ result'.success = TRUE
            /\ result'.chunks_created = total
            /\ result'.embeddings_generated = n
            /\ EmbeddedItems' = 1..total
            /\ Len(store') = Len(store) + n
            /\ SubSeq(store', 1, Len(store)) = store
            /\ \A k \in 1..n :
                  LET rec == store'[Len(store) + k]
                      i == rec.metadata.chunk_index + 1
                  IN  /\ i \in good
                      /\ Cardinality({j \in good : j <= i}) = k
                      /\ \A j \in DOMAIN store : store[j].id # rec.id
       ]_vars

\* five chunks of two documents, the third failing: chunks_created=5,
\* embeddings_generated=4, four records in the store
C4_Witness ==
    /\ op.name = "index_pdfs"
    /\ op.fail_at = 0
    /\ TotalChunks(op.listing) = 5
    /\ op.failing = {3}
    /\ result.kind = "return"
    /\ result.chunks_created = 5
    /\ result.embeddings_generated = 4
    /\ Len(store) = 4

\* C5: index_pdfs always returns a structured result with a success flag and
\* a message and never raises: success=false with no embedding or upsert
\* call for an empty document set, and success=false when an upsert call
\* fails.
C5_StructuredResult ==
    (op.name = "index_pdfs") =>
        /\ result.kind = "return"
        /\ {"success", "message"} \subseteq DOMAIN result
        /\ (op.listing = << >>) => (result.success = FALSE /\ calls = << >>)
        /\ (\E c \in DOMAIN calls : calls[c].svc = "upsert" /\ calls[c].raised)
              => result.success = FALSE

(***************************************************************************)
(* Claims about ask_question (specification SpecAsk).                      *)
(***************************************************************************)
\* the calls ask_question made to a service
CallsTo(svc) == {c \in DOMAIN calls : calls[c].svc = svc}

\* the scores of the records a query call returned
ScoresOf(c) == {calls[c].returned[i].score : i \in DOMAIN calls[c].returned}

\* C1: for a non-empty question ask_question never raises: whenever the
\* embedding call, the query or the chat-completion call fails it returns
\* success=false with an empty answer, empty sources and a message that
\* carries the error.
C1_FailuresBecomeFailureResults ==
    (op.name = "ask_question" /\ \E c \in DOMAIN calls : calls[c].raised) =>
        /\ result.kind = "return"
        /\ result.success = FALSE
        /\ result.answer = ""
        /\ result.sources = << >>
        /\ result.message[1] = "Erro ao processar pergunta: "

\* C2: the chat-completion service is called only if the query returned a
\* record with score >= SIMILARITY_THRESHOLD, and a score equal to the
\* threshold counts; when the query returns no record, or only records below
\* the threshold, the result is success=true with empty sources, no chat
\* call, and a message that differs between the two cases.
C2_ChatOnlyWhenRelevant ==
    (op.name = "ask_question") =>
        /\ CallsTo("chat") # {} =>
              \E c \in CallsTo("query") :
                  \E s \in ScoresOf(c) : s >= SIMILARITY_THRESHOLD
        /\ \A c \in CallsTo("query") :
              /\ (SIMILARITY_THRESHOLD \in ScoresOf(c)) => CallsTo("chat") # {}
              /\ (~calls[c].raised /\ calls[c].returned = << >>) =>
                    /\ result.kind = "return"
                    /\ result.success = TRUE
                    /\ result.sources = << >>
                    /\ result.message = "Nenhum documento relevante encontrado."
                    /\ CallsTo("chat") = {}
              /\ (calls[c].returned # << >>
                    /\ \A s \in ScoresOf(c) : s < SIMILARITY_THRESHOLD) =>
                    /\ result.kind = "return"
                    /\ result.success = TRUE
                    /\ result.sources = << >>
                    /\ result.message # "Nenhum documento relevante encontrado."
                    /\ result.message =
                          "Documentos encontrados nao sao suficientemente relevantes."
                    /\ CallsTo("chat") = {}

\* the best record scores 0.65 against the threshold 0.7: the "not relevant
\* enough" message, no source, no chat call
C2_Witness ==
    /\ op.name = "ask_question"
    /\ \E c \in CallsTo("query") : ScoresOf(c) = {6500}
    /\ result.message = NotRelevantResult.message
    /\ result.sources = << >>
    /\ CallsTo("chat") = {}

\* C3: an empty or whitespace-only question gets at once the "no answer"
\* result of the empty-question guard, with an empty answer and empty
\* sources, and no call to the embedding service, the index or the chat
\* service.
C3_BlankQuestion ==
    (op.name = "ask_question"
        /\ \A i \in DOMAIN op.question : op.question[i] \in Whitespace) =>
        /\ result.kind = "return"
        /\ result.success = FALSE
        /\ result.message = "Pergunta nao pode estar vazia."
        /\ result.answer = ""
        /\ result.sources = << >>
        /\ calls = << >>

\* a question of a blank and a newline was rejected
C3_Witness ==
    /\ op.name = "ask_question"
    /\ op.question = <<" ", "\n">>
    /\ result = EmptyQuestionResult
    /\ calls = << >>

\* C10: in a successful answer the sources are the records of the query that
\* have score >= SIMILARITY_THRESHOLD, one source per such record and in the
\* order the query returned them (descending similarity), so that their
\* number is the number of survivors and at most top_k; each source carries
\* its record's score rounded to 3 decimals.
C10_SourcesAreSurvivors ==
    (op.name = "ask_question" /\ result.kind = "return"
        /\ result.message = "Resposta gerada com sucesso.") =>
        /\ Cardinality(CallsTo("query")) = 1
        /\ \A c \in CallsTo("query") :
              LET ret == calls[c].returned
                  surv == {i \in DOMAIN ret : ret[i].score >= SIMILARITY_THRESHOLD}
                  src == result.sources
              IN  /\ Len(src) = Cardinality(surv)
                  /\ Len(src) <= EffectiveTopK(op.top_k)
                  /\ result.relevant_documents = Len(src)
                  /\ \A i \in surv :
                        LET k == Cardinality({j \in surv : j <= i})
                        IN  /\ src[k].filename = ret[i].filename
                            /\ src[k].chunk_index = ret[i].chunk_index
                            /\ 10 * src[k].score - ret[i].score \in -5..5
                  /\ \A k \in 1..(Len(src) - 1) : src[k].score >= src[k + 1].score

\* two sources, of records scoring 0.7006 and 0.7: 0.701 and 0.7
C10_Witness ==
    /\ op.name = "ask_question"
    /\ result.kind = "return"
    /\ result.success = TRUE
    /\ Len(result.sources) = 2
    /\ result.sources[1].score = 701
    /\ result.sources[2].score = 700

(***************************************************************************)
(* More claims about chunk_text (specification SpecChunk).                 *)
(***************************************************************************)
\* the offsets of the break characters in the last LOOKBACK characters of the
\* window of chunk_size characters that starts at start (the whole window
\* when it is shorter)
TailBreaks ==
    {i \in Max(start, start + chunk_size - LOOKBACK)..(start + chunk_size - 1) :
        text[i + 1] \in BreakChars}

\* C15: for a non-final window the break characters considered are exactly
\* those in the last 100 characters of the window (the whole window when
\* chunk_size < 100): if there is one the chunk is cut at the one nearest
\* the nominal end (just before or just after it), otherwise at the hard
\* boundary start + chunk_size.
C15_CutAtNearestBreak ==
    [][(cpc = "loop" /\ start >= 0 /\ start + chunk_size < Len(text)) =>
        IF TailBreaks = {}
        THEN end' = start + chunk_size
        ELSE LET m == CHOOSE i \in TailBreaks : \A j \in TailBreaks : j <= i
             IN  end' \in {m, m + 1}
      ]_vars

(***************************************************************************)
(* More claims about ask_question (specification SpecAsk).                 *)
(***************************************************************************)
\* C16: ask_question runs Validate, Embed, Query, Filter, Assemble, Generate
\* in a line: the embedding service, the index and the chat service are each
\* called at most once and in that order; the query is issued only after the
\* embedding call returned, with that embedding and the requested top_k (the
\* configured default when none is given); the chat call only after the
\* query returned.
C16_LinearPipeline ==
    (op.name = "ask_question") =>
        /\ \E n \in 0..3 :
              [i \in DOMAIN calls |-> calls[i].svc]
                  = SubSeq(<<"embed", "query", "chat">>, 1, n)
        /\ (Len(calls) >= 2) =>
              /\ ~calls[1].raised
              /\ calls[2].vector = EmbeddingOf(Strip(ReplaceNewlines(op.question)))
              /\ calls[2].top_k = IF op.top_k = 0 THEN DEFAULT_TOP_K ELSE op.top_k
        /\ (Len(calls) = 3) => ~calls[2].raised

\* a question asked with top_k = 1 that went through the three calls
C16_Witness ==
    /\ op.name = "ask_question"
    /\ op.top_k = 1
    /\ Len(calls) = 3
    /\ calls[2].top_k = 1
    /\ calls[3].svc = "chat"

(***************************************************************************)
(* More claims about index_pdfs (specification Spec).                      *)
(***************************************************************************)
\* C17: the chunk_index stored in a record's metadata is the chunk's position
\* within its own document: 0-based, smaller than that document's number of
\* chunks, and the record's text is that chunk; for every document of the
\* run and whichever chunks failed to embed.
C17_ChunkIndexWithinDocument ==
    [][(op'.name = "index_pdfs") =>
        \A j \in (Len(store) + 1)..Len(store') :
            LET meta == store'[j].metadata
                docs == Documents(op'.listing)
            IN  \E d \in DOMAIN docs :
                    /\ docs[d].filename = meta.filename
                    /\ LET c == chunk_text(docs[d].text, CHUNK_SIZE,
                                           CHUNK_OVERLAP).chunks
                       IN  /\ meta.chunk_index \in 0..(Len(c) - 1)
                           /\ c[meta.chunk_index + 1] = meta.full_text
      ]_vars

(***************************************************************************)
(* Claims about upsert_documents (specification SpecUpsert).               *)
(***************************************************************************)
\* the identifiers sent by the first b upsert calls, in order
RECURSIVE SentUpTo(_)
SentUpTo(b) == IF b <= 0 THEN << >> ELSE SentUpTo(b - 1) \o calls[b].ids

\* the identifiers of the stored records, in order
StoredIds == [k \in DOMAIN store |-> store[k].id]

\* the input positions that have an embedding
Embedded == (1..op.n) \ op.empty

\* C12: upsert_documents drops the records whose embedding is empty and sends
\* the rest in sequential calls of at most 100 records: the batches in call
\* order make up the records with an embedding in input order, each in
\* exactly one batch, every batch but the last has exactly 100 records, and
\* no call is made when no record has an embedding.
C12_BatchesPartitionEmbedded ==
    (op.name = "upsert_documents" /\ op.extra = 0 /\ op.fail_at = 0) =>
        /\ result.kind = "return"
        /\ \A b \in DOMAIN calls :
              /\ calls[b].svc = "upsert"
              /\ ~calls[b].raised
              /\ Len(calls[b].ids) \in 1..100
              /\ (b < Len(calls)) => Len(calls[b].ids) = 100
        /\ (Embedded = {}) => calls = << >>
        /\ SentUpTo(Len(calls)) = StoredIds
        /\ Len(store) = Cardinality(Embedded)
        /\ Cardinality({store[k].id : k \in DOMAIN store}) = Len(store)
        /\ \A k \in DOMAIN store :
              /\ store[k].metadata.chunk_index + 1 \in Embedded
              /\ store[k].values # << >>
              /\ (k < Len(store)) =>
                    store[k].metadata.chunk_index
                        < store[k + 1].metadata.chunk_index

\* 201 records, all with an embedding: batches of 100, 100 and 1
C12_Witness ==
    /\ op.name = "upsert_documents"
    /\ op.n = 201
    /\ op.empty = {}
    /\ op.fail_at = 0
    /\ Len(calls) = 3
    /\ Len(calls[3].ids) = 1
    /\ Len(store) = 201

\* C18: indexing is not atomic across batches: when the k-th upsert call
\* fails the records of the first k-1 batches stay in the index, no later
\* batch is sent, and the failure is raised out of upsert_documents.
C18_PartialBatchesRemain ==
    (op.name = "upsert_documents" /\ op.fail_at >= 1) =>
        /\ result.kind = "raise"
        /\ Len(calls) = op.fail_at
        /\ \A b \in DOMAIN calls : calls[b].raised <=> (b = op.fail_at)
        /\ StoredIds = SentUpTo(op.fail_at - 1)
        /\ Len(store) = 100 * (op.fail_at - 1)
        /\ Len(store) < Cardinality(Embedded)

\* the second of three calls failed: the first 100 records are stored
C18_Witness ==
    /\ op.name = "upsert_documents"
    /\ op.n = 201
    /\ op.empty = {}
    /\ op.fail_at = 2
    /\ result.kind = "raise"
    /\ Len(calls) = 2
    /\ Len(store) = 100

(***************************************************************************)
(* Claims about the assistant's life (specification SpecLife).             *)
(***************************************************************************)
\* C11: get_system_status never raises; when the stats call of the index
\* fails it reports pinecone_connected=false, and it reports
\* pinecone_connected=true only when the stats call succeeded.
C11_StatusReportsDisconnected ==
    (op.name = "get_system_status") =>
        /\ result.kind = "return"
        /\ (\E c \in DOMAIN calls : calls[c].svc = "stats" /\ calls[c].raised)
              => result.pinecone_connected = FALSE
        /\ (result.pinecone_connected = TRUE)
              => \E c \in DOMAIN calls : calls[c].svc = "stats" /\ ~calls[c].raised

\* the identifiers of the records of an index
IdsOf(index) == {index[k].id : k \in DOMAIN index}

\* C13: over any sequence of construction, index, ask, status and delete-all
\* operations a record is created only by indexing, never changed afterwards
\* and removed only by the bulk delete: an indexing run gives each record an
\* identifier no stored record has, ask and status leave the index as it is,
\* and a successful indexing run adds one record per embedded chunk even
\* when the same documents were indexed before.
C13_RecordLifetime ==
    [][/\ (op'.name \in {"ask_question", "get_system_status"}) => store' = store
       /\ \A k \in DOMAIN store, j \in DOMAIN store' :
             (store'[j].id = store[k].id) => store'[j] = store[k]
       /\ (IdsOf(store) \ IdsOf(store') # {}) =>
             (op'.name = "delete_all_vectors" /\ store' = << >>)
       /\ (IdsOf(store') \ IdsOf(store) # {}) => op'.name = "index_pdfs"
       /\ Cardinality(IdsOf(store')) = Len(store')
       /\ (op'.name = "index_pdfs" /\ result'.kind = "return" /\ result'.success) =>
             /\ Len(store') = Len(store) + result'.embeddings_generated
             /\ SubSeq(store', 1, Len(store)) = store
      ]_vars

\* the same document indexed twice: two records of the same chunk
C13_Witness ==
    /\ op.name = "index_pdfs"
    /\ result.kind = "return"
    /\ Len(store) = 2
    /\ store[1].metadata = store[2].metadata
    /\ store[1].id # store[2].id

\* the required variables that are missing when the constructor last ran
MissingNow ==
    (IF op.openai_key = "" THEN {"OPENAI_API_KEY"} ELSE {})
        \cup (IF op.pinecone_key = "" THEN {"PINE_CONE_API_KEY"} ELSE {})

\* C14: constructing the assistant with the OpenAI key or the Pinecone key
\* missing raises a configuration error that names every missing variable,
\* before any component is initialized and with no external service
\* contacted; with both keys present validation succeeds and initialization
\* proceeds.
C14_ConfigValidatedFirst ==
    (op.name = "__init__") =>
        /\ (MissingNow # {}) =>
              /\ result.kind = "raise"
              /\ result.error = "ValueError"
              /\ Len(result.message) = 2
              /\ {result.message[2][i] : i \in DOMAIN result.message[2]} = MissingNow
              /\ result.initialized = << >>
              /\ calls = << >>
              /\ assistant = "none"
        /\ (MissingNow = {}) =>
              /\ result.initialized # << >>
              /\ calls # << >>
              /\ (\A c \in DOMAIN calls : ~calls[c].raised) =>
                    (result.kind = "return" /\ assistant = "ready")

\* the Pinecone key alone is missing: the error names it, nothing was set up
C14_Witness ==
    /\ op.name = "__init__"
    /\ op.openai_key # ""
    /\ op.pinecone_key = ""
    /\ result.kind = "raise"
    /\ result.message[2] = <<"PINE_CONE_API_KEY">>
    /\ result.initialized = << >>
    /\ calls = << >>

\* C20: the embeddings of questions and of chunks come from the same model,
\* whose dimension is the one the index is created with, and that model is
\* the embedding model name get_system_status reports.
C20_OneEmbeddingModel ==
    /\ \A k \in DOMAIN store :
          /\ store[k].values[1].model = EmbeddingGeneratorModel
          /\ store[k].values[1].dim = IndexDimension
    /\ \A c \in DOMAIN calls :
          (calls[c].svc = "query") =>
              /\ calls[c].vector[1].model = EmbeddingGeneratorModel
              /\ calls[c].vector[1].dim = IndexDimension
    /\ (op.name = "get_system_status") =>
          /\ result.embedding_model = EmbeddingGeneratorModel
          /\ result.index_dimension \in {0, EmbeddingDimension}

(***************************************************************************)
(* Claims about the page's chat history (specification SpecUI).            *)
(***************************************************************************)
\* C19: over any sequence of UI actions chat_history holds one (question,
\* answer, sources) entry, in submission order, per question submitted since
\* the last clear whose result had success=true: a submission with
\* success=true appends its entry; a submission with success=false, an empty
\* submission, a status refresh and an indexing run leave chat_history as it
\* is; clear chat empties it.
C19_ChatHistory ==
    [][/\ (ui'.action = "submit" /\ ui'.question # << >>) =>
             /\ op'.name = "ask_question"
             /\ op'.question = ui'.question
             /\ result'.kind = "return"
             /\ chat_history' =
                   IF result'.success = TRUE
                   THEN chat_history
                           \o <<<<ui'.question, result'.answer, result'.sources>>>>
                   ELSE chat_history
       /\ (ui'.action = "submit" /\ ui'.question = << >>) =>
             (chat_history' = chat_history /\ calls' = calls)
       /\ (ui'.action \in {"refresh", "index"}) => chat_history' = chat_history
       /\ (ui'.action = "clear") => chat_history' = << >>
      ]_vars

\* a rejected submission after an answered one: the history keeps its one
\* entry
C19_Witness ==
    /\ ui.action = "submit"
    /\ ui.question # << >>
    /\ result.kind = "return"
    /\ result.success = FALSE
    /\ Len(chat_history) = 1
    /\ chat_history[1][1] = <<"q", "?">>

====
